---- MODULE Spec2Model ----
(***************************************************************************)
(* Signed commands of mina-rs: the canonical encoding of a payload         *)
(* (SignedCommandPayload::to_roinput), the per-network domain string, and  *)
(* signing / verification of a SignedCommand                               *)
(* (src/base/src/user_commands/signed_command/mod.rs).                     *)
(*                                                                         *)
(* The curve and the Schnorr primitive live in the proof-systems crate.    *)
(* They are modelled symbolically: the base field is a small prime field,  *)
(* the curve is y^2 = x^3 + 5 over it, and a signature is the perfect      *)
(* binding of (domain string, secret key, encoded message).                *)
(***************************************************************************)
EXTENDS Integers, Sequences, FiniteSets, TLC

VARIABLES
    payload,  \* the payload built by the caller (test: `payload`)
    kp,       \* the signer's keypair (test: `kp`)
    cmd,      \* cmd[n]: the command signed for network n, if any
    recv,     \* the command handed to verify, possibly altered after signing
    ctx,      \* the verification context, if one was created
    result,   \* what verify returned for the current (recv, ctx), if it ran
    roi,      \* to_roinput of the payload in hand, if it was called
    altered   \* whether recv was altered after it was signed

vars == <<payload, kp, cmd, recv, ctx, result, roi, altered>>

\* ------------------------------------------------------------------ bounds

\* Numeric payload fields (fee, token ids, nonce, slot, amount) range over
\* 0..MaxValue.
MaxValue == 1

\* ------------------------------------------------------- values and options

None == [tag |-> "None"]
Some(v) == [tag |-> "Some", value |-> v]
\* An unwrap() of an Err: the call does not return.
Panic == [tag |-> "Panic"]

Ok(v) == [tag |-> "Ok", value |-> v]
Err(e) == [tag |-> "Err", error |-> e]

NetworkId == {"MAINNET", "TESTNET"}

Values == 0..MaxValue

\* ------------------------------------------------------------------ curve

\* The base field of the curve (a small prime field standing for Fp).
BaseField == 0..6

FieldModulus == Cardinality(BaseField)

\* x^3 + 5, the right-hand side of the curve equation.
CurveRhs(x) == (x * x * x + 5) % FieldModulus

\* The points of the curve.
CurvePoints ==
    { pt \in [x : BaseField, y : BaseField] :
        (pt.y * pt.y) % FieldModulus = CurveRhs(pt.x) }

\* PubKey::into_compressed
into_compressed(pt) == [x |-> pt.x, is_odd |-> (pt.y % 2 = 1)]

\* CompressedPubKey::into_address: the address string carries the version
\* bytes, x and the parity.
into_address(c) == [version |-> "B62q", x |-> c.x, parity |-> c.is_odd]

\* PubKey::from_address: decodes the address and decompresses the point; an
\* x with no point of the asked parity on the curve is an error.
from_address(a) ==
    IF a.version # "B62q" THEN Err("AddressVersion")
    ELSE IF \E y \in BaseField :
                /\ (y * y) % FieldModulus = CurveRhs(a.x)
                /\ (y % 2 = 1) = a.parity
         THEN Ok([x |-> a.x,
                  y |-> CHOOSE y \in BaseField :
                            /\ (y * y) % FieldModulus = CurveRhs(a.x)
                            /\ (y % 2 = 1) = a.parity])
         ELSE Err("XCoordinate")

\* Keypairs: a secret scalar and its public point, which is on the curve.
Keypairs ==
    { k \in { [secret |-> 1, public |-> [x |-> 3, y |-> 2]],
              [secret |-> 2, public |-> [x |-> 5, y |-> 5]] } :
        k.public \in CurvePoints }

\* Keys a payload names (fee payer, source, receiver, delegator, delegate).
PayloadKeys ==
    { [x |-> 3, is_odd |-> FALSE],
      [x |-> 5, is_odd |-> TRUE],
      [x |-> 3, is_odd |-> TRUE] }

\* Keys an altered command may carry as its signer: the other keypair's
\* key, a wrong parity, and an x that is on no curve point.
SignerKeys ==
    { into_compressed(k.public) : k \in Keypairs }
        \cup { [x |-> 3, is_odd |-> TRUE], [x |-> 4, is_odd |-> FALSE] }

\* ------------------------------------------------------------------- memo

MemoLen == 34

\* A memo buffer: tag byte, length byte, the text, zero padding.
MemoBuffer(text) ==
    [i \in 1..MemoLen |->
        IF i = 1 THEN 1
        ELSE IF i = 2 THEN Len(text)
        ELSE IF i - 2 <= Len(text) THEN text[i - 2]
        ELSE 0]

Memos == { MemoBuffer(<<>>), MemoBuffer(<<72, 105>>) }

\* ---------------------------------------------------------------- ROInput

\* ROInput::new
ROInput_new == [fields |-> <<>>, bits |-> <<>>]

\* ROInput::append_field
append_field(r, f) == [r EXCEPT !.fields = Append(@, f)]

\* ROInput::append_bool
append_bool(r, b) == [r EXCEPT !.bits = Append(@, b)]

\* ROInput::append_bytes: the bits of each byte, least significant first.
append_bytes(r, bytes) ==
    [r EXCEPT !.bits =
        @ \o [k \in 1..(8 * Len(bytes)) |->
                (bytes[((k - 1) \div 8) + 1] \div (2 ^ ((k - 1) % 8))) % 2 = 1]]

\* uN::to_le_bytes
RECURSIVE to_le_bytes(_, _)
to_le_bytes(x, n) ==
    IF n = 0 THEN <<>> ELSE <<x % 256>> \o to_le_bytes(x \div 256, n - 1)

U32Bytes == 4
U64Bytes == 8

\* ROInput::append_u32
append_u32(r, x) == append_bytes(r, to_le_bytes(x, U32Bytes))

\* ROInput::append_u64
append_u64(r, x) == append_bytes(r, to_le_bytes(x, U64Bytes))

\* ------------------------------------------------------------- the encoder

TAG_BITS == 3
PAYMENT_TX_TAG == <<FALSE, FALSE, FALSE>>
\* Faulty variant: the delegation tag equal to the payment tag.
DELEGATION_TX_TAG_payment == <<FALSE, FALSE, FALSE>>
DELEGATION_TX_TAG == <<FALSE, FALSE, TRUE>>

\* for tag_bit in TAG { roi = roi.append_bool(tag_bit) }
RECURSIVE append_tag(_, _, _)
append_tag(r, tag, i) ==
    IF i > TAG_BITS THEN r ELSE append_tag(append_bool(r, tag[i]), tag, i + 1)

\* Faulty variant: the nonce is appended where valid_until belongs.
append_common_no_valid_until(self, pk1, pk2) ==
    LET c == self.common
        r1 == append_field(ROInput_new, c.fee_payer_pk.x)
        r2 == append_field(r1, pk1.x)
        r3 == append_field(r2, pk2.x)
        r4 == append_u64(r3, c.fee)
        r5 == append_u64(r4, c.fee_token)
        r6 == append_bool(r5, c.fee_payer_pk.is_odd)
        r7 == append_u32(r6, c.nonce)
        r8 == append_u32(r7, c.nonce)
    IN  append_bytes(r8, c.memo)

\* The fields both arms append before the tag.
append_common(self, pk1, pk2) ==
    LET c == self.common
        r1 == append_field(ROInput_new, c.fee_payer_pk.x)
        r2 == append_field(r1, pk1.x)
        r3 == append_field(r2, pk2.x)
        r4 == append_u64(r3, c.fee)
        r5 == append_u64(r4, c.fee_token)
        r6 == append_bool(r5, c.fee_payer_pk.is_odd)
        r7 == append_u32(r6, c.nonce)
        r8 == append_u32(r7, c.valid_until)
    IN  append_bytes(r8, c.memo)

\* Faulty variant: the amount is appended before the token id.
to_roinput_payment_swapped(self) ==
    LET pp == self.body
        r1 == append_common(self, pp.source_pk, pp.receiver_pk)
        r2 == append_tag(r1, PAYMENT_TX_TAG, 1)
        r3 == append_bool(r2, pp.source_pk.is_odd)
        r4 == append_bool(r3, pp.receiver_pk.is_odd)
        r5 == append_u64(r4, pp.amount)
        r6 == append_u64(r5, pp.token_id)
    IN  append_bool(r6, FALSE)

\* Faulty variant: the receiver's parity is appended twice, the source's never.
to_roinput_payment_no_source_parity(self) ==
    LET pp == self.body
        r1 == append_common(self, pp.source_pk, pp.receiver_pk)
        r2 == append_tag(r1, PAYMENT_TX_TAG, 1)
        r3 == append_bool(r2, pp.receiver_pk.is_odd)
        r4 == append_bool(r3, pp.receiver_pk.is_odd)
        r5 == append_u64(r4, pp.token_id)
        r6 == append_u64(r5, pp.amount)
    IN  append_bool(r6, FALSE)

\* The SignedCommandPayloadBody::PaymentPayload arm of to_roinput.
to_roinput_payment(self) ==
    LET pp == self.body
        r1 == append_common(self, pp.source_pk, pp.receiver_pk)
        r2 == append_tag(r1, PAYMENT_TX_TAG, 1)
        r3 == append_bool(r2, pp.source_pk.is_odd)
        r4 == append_bool(r3, pp.receiver_pk.is_odd)
        r5 == append_u64(r4, pp.token_id)
        r6 == append_u64(r5, pp.amount)
    IN  append_bool(r6, FALSE)

\* Faulty variant: the fee token is appended in the token-id position.
to_roinput_delegation_fee_token(self) ==
    LET s == self.body
        r1 == append_common(self, s.delegator, s.new_delegate)
        r2 == append_tag(r1, DELEGATION_TX_TAG, 1)
        r3 == append_bool(r2, s.delegator.is_odd)
        r4 == append_bool(r3, s.new_delegate.is_odd)
        r5 == append_u64(r4, self.common.fee_token)
        r6 == append_u64(r5, 0)
    IN  append_bool(r6, FALSE)

\* The StakeDelegation::SetDelegate arm of to_roinput.
to_roinput_delegation(self) ==
    LET s == self.body
        r1 == append_common(self, s.delegator, s.new_delegate)
        r2 == append_tag(r1, DELEGATION_TX_TAG, 1)
        r3 == append_bool(r2, s.delegator.is_odd)
        r4 == append_bool(r3, s.new_delegate.is_odd)
        r5 == append_u64(r4, 1)
        r6 == append_u64(r5, 0)
    IN  append_bool(r6, FALSE)

\* SignedCommandPayload::to_roinput
to_roinput(self) ==
    IF self.body.kind = "PaymentPayload"
    THEN to_roinput_payment(self)
    ELSE to_roinput_delegation(self)

\* Faulty variant: one label for both networks.
domain_string_shared(network_id) == Some("CodaSignature")

\* Faulty variant: the two labels exchanged.
domain_string_swapped(network_id) ==
    Some(CASE network_id = "MAINNET" -> "CodaSignature"
           [] network_id = "TESTNET" -> "MinaSignatureMainnet")

\* SignedCommandPayload::domain_string
domain_string(network_id) ==
    Some(CASE network_id = "MAINNET" -> "MinaSignatureMainnet"
           [] network_id = "TESTNET" -> "CodaSignature")

\* ------------------------------------------------------ signer and verifier

\* mina_signer::create_legacy::<SignedCommandPayload>(network): the context
\* is keyed by the payload type's domain string for the network.
create_legacy(network) ==
    [network |-> network, domain |-> domain_string(network)]

\* Signer::sign: the signature binds the domain, the secret and the encoded
\* input.
ctx_sign(c, keypair, input) ==
    [domain |-> c.domain, secret |-> keypair.secret, msg |-> to_roinput(input)]

\* Signer::verify: true exactly for the signature that the holder of the
\* secret behind `pub` makes over the same input in the same domain.
ctx_verify(c, sig, pub, input) ==
    \E k \in Keypairs :
        /\ k.public = pub
        /\ sig = [domain |-> c.domain, secret |-> k.secret,
                  msg |-> to_roinput(input)]

\* Faulty variant: the fee payer's key is recorded as the signer.
from_payload_fee_payer(p, keypair, network) ==
    LET c == create_legacy(network)
        signature == ctx_sign(c, keypair, p)
    IN  [payload |-> p,
         signer |-> p.common.fee_payer_pk,
         signature |-> signature]

\* SignedCommand::from_payload
from_payload(p, keypair, network) ==
    LET c == create_legacy(network)
        signature == ctx_sign(c, keypair, p)
    IN  [payload |-> p,
         signer |-> into_compressed(keypair.public),
         signature |-> signature]

\* SignedCommandPayload::into_signed_command
into_signed_command(self, keypair, network) ==
    from_payload(self, keypair, network)

\* <SignedCommand as Verifiable<CTX>>::verify
verify(self, c) ==
    LET signer_uncompressed == from_address(into_address(self.signer))
    IN  IF signer_uncompressed.tag = "Ok"
        THEN Some(ctx_verify(c, self.signature, signer_uncompressed.value,
                             self.payload))
        ELSE Panic

\* ------------------------------------------------------------- payloads

Common(memo) ==
    [fee |-> 1, fee_token |-> 1,
     fee_payer_pk |-> [x |-> 3, is_odd |-> FALSE],
     nonce |-> 0, valid_until |-> 1, memo |-> memo]

PaymentBody(src, rcv, token, amount) ==
    [kind |-> "PaymentPayload", source_pk |-> src, receiver_pk |-> rcv,
     token_id |-> token, amount |-> amount]

DelegationBody(d, nd) ==
    [kind |-> "StakeDelegation", delegator |-> d, new_delegate |-> nd]

\* The payloads a caller builds.
InitPayloads ==
    { [common |-> Common(MemoBuffer(<<>>)), body |-> b] :
        b \in { PaymentBody([x |-> 3, is_odd |-> FALSE],
                            [x |-> 5, is_odd |-> TRUE], 1, a) : a \in {0, 1} }
              \cup { DelegationBody([x |-> 3, is_odd |-> FALSE],
                                    [x |-> 5, is_odd |-> TRUE]) } }

CommonDomain(f) ==
    CASE f = "fee_payer_pk" -> PayloadKeys
      [] f = "memo" -> Memos
      [] OTHER -> Values

BodyDomain(f) ==
    CASE f \in {"token_id", "amount"} -> Values
      [] OTHER -> PayloadKeys

CommonFields ==
    {"fee", "fee_token", "fee_payer_pk", "nonce", "valid_until", "memo"}

BodyFields(b) == (DOMAIN b) \ {"kind"}

\* x with bit k flipped.
FlipBit(x, k) ==
    IF (x \div (2 ^ k)) % 2 = 1 THEN x - 2 ^ k ELSE x + 2 ^ k

\* ---------------------------------------------------------------- actions

Init ==
    /\ payload \in InitPayloads
    /\ kp \in Keypairs
    /\ cmd = [n \in NetworkId |-> None]
    /\ recv = None
    /\ ctx = None
    /\ result = None
    /\ roi = None
    /\ altered = FALSE

\* The payload in hand: the one of the command under verification, or the
\* caller's while there is none.
InHand == IF recv = None THEN payload ELSE recv.value.payload

\* InHand.to_roinput()
Encode ==
    /\ roi' = Some([payload |-> InHand, out |-> to_roinput(InHand)])
    /\ UNCHANGED <<payload, kp, cmd, recv, ctx, result, altered>>

\* SignedCommand::from_payload(payload.clone(), kp.clone(), n)
FromPayload(n) ==
    /\ cmd' = [cmd EXCEPT ![n] = Some(from_payload(payload, kp, n))]
    /\ UNCHANGED <<payload, kp, recv, ctx, result, roi, altered>>

\* The command signed for network n is the one to verify.
Receive(n) ==
    /\ cmd[n] # None
    /\ recv' = cmd[n]
    /\ altered' = FALSE
    /\ result' = None
    /\ roi' = None
    /\ UNCHANGED <<payload, kp, cmd, ctx>>

\* mina_signer::create_legacy(n), the context for verification.
CreateLegacy(n) ==
    /\ ctx' = Some(create_legacy(n))
    /\ result' = None
    /\ UNCHANGED <<payload, kp, cmd, recv, roi, altered>>

\* recv.verify(&mut ctx)
Verify ==
    /\ recv # None
    /\ ctx # None
    /\ result' = verify(recv.value, ctx.value)
    /\ UNCHANGED <<payload, kp, cmd, recv, ctx, roi, altered>>

Altered(c) ==
    /\ recv' = Some(c)
    /\ altered' = TRUE
    /\ result' = None
    /\ roi' = None
    /\ UNCHANGED <<payload, kp, cmd, ctx>>

\* A Common field of the command's payload is overwritten.
TamperCommon ==
    /\ recv # None
    /\ ~altered
    /\ \E f \in CommonFields :
         \E v \in CommonDomain(f) \ {recv.value.payload.common[f]} :
            Altered([recv.value EXCEPT !.payload.common[f] = v])

\* payload.common.valid_until.0 with one of its low bits flipped.
FlipValidUntil ==
    /\ recv # None
    /\ ~altered
    /\ \E k \in Values :
         Altered([recv.value EXCEPT
                    !.payload.common.valid_until = FlipBit(@, k)])

\* A Body field of the command's payload is overwritten.
TamperBody ==
    /\ recv # None
    /\ ~altered
    /\ \E f \in BodyFields(recv.value.payload.body) :
         \E v \in BodyDomain(f) \ {recv.value.payload.body[f]} :
            Altered([recv.value EXCEPT !.payload.body[f] = v])

\* The body is read as the other variant, with the same two keys.
Reinterpret ==
    /\ recv # None
    /\ ~altered
    /\ LET b == recv.value.payload.body IN
         IF b.kind = "PaymentPayload"
         THEN Altered([recv.value EXCEPT !.payload.body =
                          DelegationBody(b.source_pk, b.receiver_pk)])
         ELSE \E t \in Values, a \in Values :
                Altered([recv.value EXCEPT !.payload.body =
                            PaymentBody(b.delegator, b.new_delegate, t, a)])

\* The command's signer is replaced.
TamperSigner ==
    /\ recv # None
    /\ ~altered
    /\ \E s \in SignerKeys \ {recv.value.signer} :
         Altered([recv.value EXCEPT !.signer = s])

\* The command's signature is replaced by another signature over its payload.
TamperSignature ==
    /\ recv # None
    /\ ~altered
    /\ \E k \in Keypairs, n \in NetworkId :
         LET sig == ctx_sign(create_legacy(n), k, recv.value.payload) IN
           /\ sig # recv.value.signature
           /\ Altered([recv.value EXCEPT !.signature = sig])

Next ==
    \/ Encode
    \/ \E n \in NetworkId : FromPayload(n)
    \/ \E n \in NetworkId : Receive(n)
    \/ \E n \in NetworkId : CreateLegacy(n)
    \/ Verify
    \/ TamperCommon
    \/ FlipValidUntil
    \/ TamperBody
    \/ Reinterpret
    \/ TamperSigner
    \/ TamperSignature

Spec == Init /\ [][Next]_vars

\* ----------------------------------------------------- expected encodings

\* Bit k of x (the model's numbers stay below 2^31).
Bit(x, k) == k < 31 /\ (x \div (2 ^ k)) % 2 = 1

\* A u64, a u32, a byte string and a bool as the bits the hasher receives.
U64(x) == [i \in 1..64 |-> Bit(x, i - 1)]
U32(x) == [i \in 1..32 |-> Bit(x, i - 1)]
Bytes(m) == [i \in 1..(8 * Len(m)) |-> Bit(m[((i - 1) \div 8) + 1], (i - 1) % 8)]
Bool(b) == <<b>>

ExpectedPayment(p) ==
    [fields |-> <<p.common.fee_payer_pk.x, p.body.source_pk.x,
                  p.body.receiver_pk.x>>,
     bits |-> U64(p.common.fee) \o U64(p.common.fee_token)
              \o Bool(p.common.fee_payer_pk.is_odd)
              \o U32(p.common.nonce) \o U32(p.common.valid_until)
              \o Bytes(p.common.memo)
              \o Bool(FALSE) \o Bool(FALSE) \o Bool(FALSE)
              \o Bool(p.body.source_pk.is_odd)
              \o Bool(p.body.receiver_pk.is_odd)
              \o U64(p.body.token_id) \o U64(p.body.amount)
              \o Bool(FALSE)]

ExpectedDelegation(p) ==
    [fields |-> <<p.common.fee_payer_pk.x, p.body.delegator.x,
                  p.body.new_delegate.x>>,
     bits |-> U64(p.common.fee) \o U64(p.common.fee_token)
              \o Bool(p.common.fee_payer_pk.is_odd)
              \o U32(p.common.nonce) \o U32(p.common.valid_until)
              \o Bytes(p.common.memo)
              \o Bool(FALSE) \o Bool(FALSE) \o Bool(TRUE)
              \o Bool(p.body.delegator.is_odd)
              \o Bool(p.body.new_delegate.is_odd)
              \o U64(1) \o U64(0)
              \o Bool(FALSE)]

\* The three tag bits of an encoding: they follow fee, fee token, the fee
\* payer's parity, nonce, valid_until and the memo.
TagOffset == 64 + 64 + 1 + 32 + 32 + 8 * MemoLen
TagOf(r) == SubSeq(r.bits, TagOffset + 1, TagOffset + TAG_BITS)

\* p is a payment and q a delegation with the same Common fields and the
\* same two keys in the same positions.
Analogous(p, q) ==
    /\ p.body.kind = "PaymentPayload"
    /\ q.body.kind = "StakeDelegation"
    /\ p.common = q.common
    /\ p.body.source_pk = q.body.delegator
    /\ p.body.receiver_pk = q.body.new_delegate

\* recv carries the signature and the signer of the command signed for n,
\* over a different payload.
PayloadAlteredFrom(n) ==
    /\ recv # None
    /\ cmd[n] # None
    /\ recv.value.signature = cmd[n].value.signature
    /\ recv.value.signer = cmd[n].value.signer
    /\ recv.value.payload # cmd[n].value.payload

\* ----------------------------------------------------------------- claims

\* C1: for a Payment payload, to_roinput yields exactly: the fields
\* fee_payer.x, source.x, receiver.x, and the bits of u64(fee),
\* u64(fee_token), bool(fee_payer.is_odd), u32(nonce), u32(valid_until),
\* bytes(memo), the tag false,false,false, bool(source.is_odd),
\* bool(receiver.is_odd), u64(token_id), u64(amount), bool(false).
C1_PaymentEncoding ==
    (roi # None /\ roi.value.payload.body.kind = "PaymentPayload")
        => roi.value.out = ExpectedPayment(roi.value.payload)

C1_Witness ==
    /\ roi # None
    /\ roi.value.payload.body.kind = "PaymentPayload"
    /\ roi.value.payload.body.source_pk.is_odd
    /\ roi.value.out = ExpectedPayment(roi.value.payload)

\* C2: for a SetDelegate payload, to_roinput yields exactly: the fields
\* fee_payer.x, delegator.x, new_delegate.x, and the bits of u64(fee),
\* u64(fee_token), bool(fee_payer.is_odd), u32(nonce), u32(valid_until),
\* bytes(memo), the tag false,false,true, bool(delegator.is_odd),
\* bool(new_delegate.is_odd), the constants u64(1) and u64(0), bool(false),
\* whatever the payload's fields are.
C2_DelegationEncoding ==
    (roi # None /\ roi.value.payload.body.kind = "StakeDelegation")
        => roi.value.out = ExpectedDelegation(roi.value.payload)

C2_Witness ==
    /\ roi # None
    /\ roi.value.payload.body.kind = "StakeDelegation"
    /\ roi.value.payload.common.fee_token # 1
    /\ roi.value.out = ExpectedDelegation(roi.value.payload)

\* C3: the signatures of the same payload and keypair for MAINNET and for
\* TESTNET differ, and the command signed for a network verifies true under
\* that network's context and false under the other's.
C3_NetworkSeparation ==
    /\ (cmd["MAINNET"] # None /\ cmd["TESTNET"] # None)
          => cmd["MAINNET"].value.signature # cmd["TESTNET"].value.signature
    /\ \A n \in NetworkId :
          (result # None /\ recv = cmd[n])
              => result = Some(ctx.value.network = n)

C3_Witness ==
    /\ cmd["MAINNET"] # None
    /\ recv = cmd["TESTNET"]
    /\ recv # None
    /\ ctx = Some(create_legacy("MAINNET"))
    /\ result = Some(FALSE)

\* C4: from_payload(p, kp, n) verifies true under the legacy context created
\* for the same network n.
C4_RoundTrip ==
    (result # None
        /\ recv.value = from_payload(payload, kp, ctx.value.network))
        => result = Some(TRUE)

C4_Witness ==
    /\ result = Some(TRUE)
    /\ ~altered
    /\ recv.value = from_payload(payload, kp, ctx.value.network)
    /\ into_compressed(kp.public) # payload.common.fee_payer_pk

\* C5: a command whose payload was changed after signing, in valid_until or
\* in any other Common or Body field, with the signature and the signer kept,
\* verifies false under the mainnet and under the testnet context.
C5_TamperSensitivity ==
    \A n \in NetworkId :
        (result # None /\ PayloadAlteredFrom(n)) => result = Some(FALSE)

C5_Witness ==
    \E n \in NetworkId :
        /\ PayloadAlteredFrom(n)
        /\ recv.value.payload =
              [cmd[n].value.payload EXCEPT
                  !.common.valid_until = FlipBit(@, 0)]
        /\ ctx = Some(create_legacy(n))
        /\ result = Some(FALSE)

\* C6: a payment and a delegation with the same Common fields and the same
\* two keys encode differently, in the tag bits, and the signature made for
\* one does not verify over the other.
C6_VariantTagging ==
    \A n \in NetworkId :
        (/\ result # None
         /\ cmd[n] # None
         /\ recv.value.signature = cmd[n].value.signature
         /\ \/ Analogous(recv.value.payload, cmd[n].value.payload)
            \/ Analogous(cmd[n].value.payload, recv.value.payload))
        => /\ to_roinput(recv.value.payload)
                # to_roinput(cmd[n].value.payload)
           /\ TagOf(to_roinput(recv.value.payload))
                # TagOf(to_roinput(cmd[n].value.payload))
           /\ result # Some(TRUE)

C6_Witness ==
    \E n \in NetworkId :
        /\ cmd[n] # None
        /\ recv # None
        /\ recv.value.signature = cmd[n].value.signature
        /\ recv.value.signer = cmd[n].value.signer
        /\ Analogous(recv.value.payload, cmd[n].value.payload)
        /\ recv.value.payload.body.token_id = 1
        /\ recv.value.payload.body.amount = 0
        /\ ctx = Some(create_legacy(n))
        /\ result = Some(FALSE)

\* C7: verify always returns a boolean: it never panics, and it returns
\* false under the other network's context, over an altered payload, with an
\* altered signature and with a signer that is not the signing key.
C7_VerifyTotal ==
    result # None =>
        /\ result \in {Some(TRUE), Some(FALSE)}
        /\ \A n \in NetworkId :
              /\ (recv = cmd[n] /\ ctx.value.network # n)
                    => result = Some(FALSE)
              /\ PayloadAlteredFrom(n) => result = Some(FALSE)
        /\ LET own == cmd[ctx.value.network] IN
              own # None =>
                /\ (/\ recv.value.payload = own.value.payload
                    /\ recv.value.signer = own.value.signer
                    /\ recv.value.signature # own.value.signature)
                      => result = Some(FALSE)
                /\ (/\ recv.value.payload = own.value.payload
                    /\ recv.value.signature = own.value.signature
                    /\ recv.value.signer # own.value.signer)
                      => result = Some(FALSE)

\* The part of C7 that holds: whenever verify returns, it returns false in
\* each of the cases C7 names.
C7_FalseWhenReturned ==
    result # Panic => C7_VerifyTotal

\* C8: domain_string returns a present label for MAINNET and for TESTNET,
\* "MinaSignatureMainnet" and "CodaSignature", and the two differ.
C8_DomainString ==
    /\ ctx # None =>
          /\ ctx.value.domain.tag = "Some"
          /\ ctx.value.network = "MAINNET"
                => ctx.value.domain = Some("MinaSignatureMainnet")
          /\ ctx.value.network = "TESTNET"
                => ctx.value.domain = Some("CodaSignature")
    /\ \A m, n \in NetworkId :
          m # n => domain_string(m) # domain_string(n)

C8_Witness ==
    /\ ctx # None
    /\ ctx.value.network = "MAINNET"
    /\ ctx.value.domain = Some("MinaSignatureMainnet")

\* C10: two payloads that differ in a Common or Body field, or in the Body
\* variant, have different encodings.
C10_EncodingInjective ==
    (roi # None /\ roi.value.payload # payload)
        => roi.value.out # to_roinput(payload)

C10_Witness ==
    /\ roi # None
    /\ roi.value.payload.body = payload.body
    /\ roi.value.payload.common.memo # payload.common.memo
    /\ roi.value.out # to_roinput(payload)

====
